---- MODULE Spec2Model ----
(***************************************************************************)
(* Model of the AIDish nutrition back end: the users, user_spirit,         *)
(* student_meals and preselected_meals tables, the request handlers        *)
(* (register, record_meal, get_meals, get_statistics, preselect_meal,      *)
(* get_spirit_info, update_spirit_name), the progression update            *)
(* (update_spirit_attributes) and the seeding scripts.  One action is one  *)
(* whole request handler or one script run: each handler works in its own  *)
(* SQLAlchemy session, and what it leaves in the tables is what that       *)
(* session committed.  ConcSpec alone splits record_meal in two steps, to  *)
(* run two requests at the same time; FuncSpec applies the pure functions  *)
(* to drawn arguments; PlanSpec has two users preselect; LoopSpec runs the *)
(* progression update statement by statement on drawn spirits.             *)
(*                                                                         *)
(* Numbers: nutrient values and amounts are floats in the program.  The    *)
(* model draws them from the integers and keeps the rounding of float      *)
(* arithmetic at a reduced width: a sum or product that needs more than    *)
(* MantissaBits significant bits is rounded to the nearest value that has  *)
(* them, ties to even (FloatAdd, FloatMul).  int(x / d) is truncation      *)
(* toward zero (TruncDiv).  A nullable column or an optional return value  *)
(* is a sequence of length 0 (None) or 1.                                  *)
(***************************************************************************)
EXTENDS Integers, Sequences, FiniteSets, TLC

VARIABLES
    users,      \* rows of table users: [id, username, gender]
    spirits,    \* rows of table user_spirit
    meals,      \* rows of table student_meals
    gained,     \* user_id -> sum of every exp_gain added to that user's spirit_exp
    resp,       \* the response of the last request
    preselected,\* rows of table preselected_meals
    threads     \* the record_meal requests in progress, one per server thread

vars == <<users, spirits, meals, gained, resp, preselected, threads>>

----------------------------------------------------------------------------
(* Bounds of the model *)

\* record_meal is not taken once student_meals holds this many rows
MaxMeals == 2
\* ProgSpec feeds a spirit no meal event once it has gained this much experience
MaxGained == 305
\* the significant bits of a float of the model (a Python float has 53)
MantissaBits == 24
\* preselect_meal is not taken once preselected_meals holds a row of this id
MaxPreselectId == 3

----------------------------------------------------------------------------
(* Program constants *)

ExpPerLevel == 100
BaseExpGain == 5
MaxBalanceBonus == 5
WeightCap == 100
StrengthCap == 100
IqCap == 100
CaloriesPerWeight == 100
ProteinPerStrength == 10
VitaminPerIq == 30

None == <<>>
Some(v) == <<v>>

Nutrients ==
    {"calories", "protein", "fat", "calcium", "iron", "zinc", "magnesium",
     "vitamin_a", "vitamin_b1", "vitamin_b2", "vitamin_c", "vitamin_d", "vitamin_e"}

\* Rows of table foods (name is unique and stands for the row's id).
\* calories, fat and protein are NOT NULL columns, the others are nullable.
Foods ==
    { [name |-> "ribs",
       nutrition |-> [k \in Nutrients |->
            CASE k = "calories" -> Some(264) [] k = "protein" -> Some(18)
              [] k = "fat" -> Some(20)      [] k = "calcium" -> Some(8)
              [] k = "iron" -> Some(1)      [] k = "zinc" -> Some(3)
              [] OTHER -> None]],
      [name |-> "veg",
       nutrition |-> [k \in Nutrients |->
            CASE k = "calories" -> Some(24) [] k = "protein" -> Some(2)
              [] k = "fat" -> Some(0)       [] k = "calcium" -> Some(23)
              [] k = "iron" -> Some(1)      [] k = "vitamin_c" -> Some(61)
              [] OTHER -> None]] }

\* int(x / d) for d > 0: Python's int() truncates toward zero
TruncDiv(x, d) == IF x >= 0 THEN x \div d ELSE -((-x) \div d)

Min(a, b) == IF a <= b THEN a ELSE b

RECURSIVE Pow2(_)
Pow2(n) == IF n = 0 THEN 1 ELSE 2 * Pow2(n - 1)

\* below this magnitude every integer is a float
MantissaLimit == Pow2(MantissaBits)

\* the spacing of the floats around magnitude a >= MantissaLimit
RECURSIVE Ulp(_, _)
Ulp(a, q) == IF a \div q < MantissaLimit THEN q ELSE Ulp(a, 2 * q)

\* the float nearest to the number x, ties to the even mantissa
Round(x) ==
    LET a == IF x >= 0 THEN x ELSE -x
    IN IF a < MantissaLimit THEN x
       ELSE LET q == Ulp(a, 2)
                m == a \div q
                r == a - m * q
                up == IF 2 * r > q THEN 1
                      ELSE IF 2 * r < q THEN 0
                      ELSE m % 2
                n == (m + up) * q
            IN IF x >= 0 THEN n ELSE -n

\* Variant: sums are exact
FloatAddExact(a, b) == a + b

\* a + b and a * b of two floats
FloatAdd(a, b) == Round(a + b)
FloatMul(a, b) == Round(a * b)

\* SQLite gives a new row the largest id of the table plus one
NewId(rows) ==
    IF rows = {} THEN 1
    ELSE (CHOOSE m \in {r.id : r \in rows} : \A r \in rows : r.id <= m) + 1

----------------------------------------------------------------------------
(* The progression update *)

\* Variant: the threshold taken off is that of the level before
LevelUpLate(level, exp) ==
    [level |-> level + 1, exp |-> exp - (level - 1) * ExpPerLevel]

\* the body of the level loop: spirit_exp -= spirit_level * 100; spirit_level += 1
LevelUp(level, exp) ==
    [level |-> level + 1, exp |-> exp - level * ExpPerLevel]

\* Variants of the level loop with a slip in it: a threshold test with > for >=,
\* and an if for the while.
RECURSIVE LevelLoopStrict(_, _)
LevelLoopStrict(level, exp) ==
    IF exp > level * ExpPerLevel
    THEN LevelLoopStrict(level + 1, exp - level * ExpPerLevel)
    ELSE [level |-> level, exp |-> exp]

LevelLoopOnce(level, exp) ==
    IF exp >= level * ExpPerLevel
    THEN [level |-> level + 1, exp |-> exp - level * ExpPerLevel]
    ELSE [level |-> level, exp |-> exp]

\* while spirit_exp >= spirit_level * 100: spirit_exp -= spirit_level * 100; spirit_level += 1
RECURSIVE LevelLoop(_, _)
LevelLoop(level, exp) ==
    IF exp >= level * ExpPerLevel
    THEN LevelLoop(level + 1, exp - level * ExpPerLevel)
    ELSE [level |-> level, exp |-> exp]

\* the number of calories, protein, fat, calcium whose total is > 0
NutritionBalance(total) ==
    Cardinality({k \in {"calories", "protein", "fat", "calcium"} : total[k] > 0})

\* Variant: the gain is counted in levels, not in points
ExpGainInLevels(total) ==
    ExpPerLevel * (BaseExpGain + Min(NutritionBalance(total), MaxBalanceBonus))

\* Variant: two points for each nutrient present
ExpGainDouble(total) == BaseExpGain + Min(2 * NutritionBalance(total), MaxBalanceBonus)

ExpGain(total) == BaseExpGain + Min(NutritionBalance(total), MaxBalanceBonus)

\* Variant: the weight is not capped
GrowWeightNoCap(weight, total) ==
    weight + TruncDiv(total["calories"], CaloriesPerWeight)

GrowWeight(weight, total) ==
    Min(WeightCap, weight + TruncDiv(total["calories"], CaloriesPerWeight))

\* Variant: one point of strength for 30 g of protein
GrowStrengthPerThirty(strength, total) ==
    Min(StrengthCap, strength + TruncDiv(total["protein"], 3 * ProteinPerStrength))

GrowStrength(strength, total) ==
    Min(StrengthCap, strength + TruncDiv(total["protein"], ProteinPerStrength))

GrowIq(iq, total) ==
    Min(IqCap, iq + TruncDiv(total["vitamin_b1"] + total["vitamin_b2"] + total["vitamin_c"],
                             VitaminPerIq))

\* Variant: the level is raised before the threshold is taken off, so the
\* threshold of the new level is subtracted
UpdatedSpiritNewThreshold(s, total) ==
    LET e == s.spirit_exp + ExpGain(total)
        up == e >= s.spirit_level * ExpPerLevel
    IN [s EXCEPT !.spirit_level = IF up THEN @ + 1 ELSE @,
                 !.spirit_exp = IF up THEN e - (s.spirit_level + 1) * ExpPerLevel ELSE e,
                 !.weight = GrowWeight(s.weight, total),
                 !.strength = GrowStrength(s.strength, total),
                 !.iq = GrowIq(s.iq, total)]

\* Variant: the gain is added twice, as by one update for each of two foods
UpdatedSpiritTwice(s, total) ==
    LET lv == LevelLoop(s.spirit_level, s.spirit_exp + 2 * ExpGain(total))
    IN [s EXCEPT !.spirit_level = lv.level,
                 !.spirit_exp = lv.exp,
                 !.weight = GrowWeight(s.weight, total),
                 !.strength = GrowStrength(s.strength, total),
                 !.iq = GrowIq(s.iq, total)]

\* Variant: a meal with calcium or vitamin D makes the spirit taller
UpdatedSpiritTaller(s, total) ==
    LET lv == LevelLoop(s.spirit_level, s.spirit_exp + ExpGain(total))
    IN [s EXCEPT !.spirit_level = lv.level,
                 !.spirit_exp = lv.exp,
                 !.height = IF total["calcium"] > 0 \/ total["vitamin_d"] > 0
                            THEN @ + 1 ELSE @,
                 !.weight = GrowWeight(s.weight, total),
                 !.strength = GrowStrength(s.strength, total),
                 !.iq = GrowIq(s.iq, total)]

\* the spirit row after one meal event with these totals
UpdatedSpirit(s, total) ==
    LET lv == LevelLoop(s.spirit_level, s.spirit_exp + ExpGain(total))
    IN [s EXCEPT !.spirit_level = lv.level,
                 !.spirit_exp = lv.exp,
                 !.weight = GrowWeight(s.weight, total),
                 !.strength = GrowStrength(s.strength, total),
                 !.iq = GrowIq(s.iq, total)]

\* Variant: a user without a spirit is given a seed spirit by the update
update_spirit_attributes_create(rows, user_id, total) ==
    LET found == {s \in rows : s.user_id = user_id}
        seed == [user_id |-> user_id, spirit_name |-> "warrior", spirit_level |-> 1,
                 spirit_exp |-> 0, height |-> 100, weight |-> 20, iq |-> 40,
                 strength |-> 40]
        s == IF found = {} THEN seed ELSE CHOOSE x \in found : TRUE
        t == UpdatedSpirit(s, total)
    IN [spirits |-> (rows \ {s}) \cup {t},
        ret |-> IF found = {} THEN None
                ELSE Some([spirit_name |-> t.spirit_name, level |-> t.spirit_level,
                           exp |-> t.spirit_exp, exp_gain |-> ExpGain(total),
                           weight |-> t.weight, strength |-> t.strength, iq |-> t.iq])]

\* update_spirit_attributes(user_id, total_nutrition) on the session's view of
\* user_spirit: the rows after it and what it returns (None without a spirit)
update_spirit_attributes(rows, user_id, total) ==
    LET found == {s \in rows : s.user_id = user_id}
    IN IF found = {}
       THEN [spirits |-> rows, ret |-> None]
       ELSE LET s == CHOOSE x \in found : TRUE
                t == UpdatedSpirit(s, total)
            IN [spirits |-> (rows \ {s}) \cup {t},
                ret |-> Some([spirit_name |-> t.spirit_name,
                              level |-> t.spirit_level,
                              exp |-> t.spirit_exp,
                              exp_gain |-> ExpGain(total),
                              weight |-> t.weight,
                              strength |-> t.strength,
                              iq |-> t.iq])]

----------------------------------------------------------------------------
(* Recording a meal *)

\* Variant: the last hour of the day is dinner
get_meal_type_by_time_late(hour) ==
    IF 5 <= hour /\ hour < 10 THEN "1"
    ELSE IF 10 <= hour /\ hour < 15 THEN "2"
    ELSE IF 15 <= hour /\ hour <= 23 THEN "3"
    ELSE "1"

\* get_meal_type_by_time: the slot of an hour of the day
get_meal_type_by_time(hour) ==
    IF 5 <= hour /\ hour < 10 THEN "1"
    ELSE IF 10 <= hour /\ hour < 15 THEN "2"
    ELSE IF 15 <= hour /\ hour < 23 THEN "3"
    ELSE "1"

\* datetime.strptime(date, '%Y-%m-%d'): a date, or None on ValueError
ValidDates == {"2025-03-17", "2025-03-18", "2025-03-19"}
ParseDate(str) == IF str \in ValidDates THEN Some(str) ELSE None

\* the order of the dates: the day of the month
DayNumber(date) ==
    CASE date = "2025-03-17" -> 17 [] date = "2025-03-18" -> 18 [] date = "2025-03-19" -> 19

\* Food.query.filter_by(name=food_name).first()
FindFood(food_name) == {f \in Foods : f.name = food_name}

\* Variant: the value of the food whatever the amount
ItemNutritionUnit(food, amount) == food.nutrition

\* the 'nutrition' entry of one recorded food: value * amount, None for a null value
ItemNutrition(food, amount) ==
    [k \in Nutrients |->
        IF food.nutrition[k] = None THEN None
        ELSE Some(FloatMul(food.nutrition[k][1], amount))]

\* Variant: total[k] = value for total[k] += value
RECURSIVE SumNutrientAssign(_, _, _)
SumNutrientAssign(foods, k, n) ==
    IF n = 0 THEN 0
    ELSE LET t == SumNutrientAssign(foods, k, n - 1)
             v == foods[n].nutrition[k]
         IN IF v = None THEN t ELSE v[1]

\* calculate_total_nutrition(foods): total[k] starts at 0 and, food by food in the
\* order of the list, is added the food's value when that is not None.
\* SumNutrient is total[k] after the first n foods.
RECURSIVE SumNutrient(_, _, _)
SumNutrient(foods, k, n) ==
    IF n = 0 THEN 0
    ELSE LET t == SumNutrient(foods, k, n - 1)
             v == foods[n].nutrition[k]
         IN IF v = None THEN t ELSE FloatAdd(t, v[1])

calculate_total_nutrition(foods) ==
    [k \in Nutrients |-> SumNutrient(foods, k, Len(foods))]

\* Variant: a food that is already recorded for the slot is recorded again
FoodStepNoSkip(st, item, ctx) ==
    IF item.food_name = "" THEN st
    ELSE IF FindFood(item.food_name) = {}
    THEN [st EXCEPT !.status = "notfound", !.missing = item.food_name]
    ELSE LET food == CHOOSE f \in FindFood(item.food_name) : TRUE
             meal == [id |-> ctx.first_id + Len(st.added),
                      user_id |-> ctx.user_id,
                      food_id |-> food.name,
                      meal_type |-> ctx.meal_type,
                      date |-> ctx.date,
                      amount |-> item.amount]
         IN IF ~item.numeric
            THEN [st EXCEPT !.added = Append(@, meal), !.status = "error"]
            ELSE [st EXCEPT !.added = Append(@, meal),
                            !.recorded = Append(@,
                                [food_name |-> food.name,
                                 amount |-> item.amount,
                                 nutrition |-> ItemNutrition(food, item.amount)])]

\* One pass of the loop over data['foods'] (lines 107-152).  st is the state of the
\* request: the rows added to the session, recorded_foods, skipped_foods and how
\* the loop stands ("run", "notfound" after the return of line 115, "error" after
\* an exception).  A non-numeric amount raises TypeError at line 138, after the
\* row was added to the session at line 133.
FoodStep(st, item, ctx) ==
    IF item.food_name = "" THEN st
    ELSE IF FindFood(item.food_name) = {}
    THEN [st EXCEPT !.status = "notfound", !.missing = item.food_name]
    ELSE LET food == CHOOSE f \in FindFood(item.food_name) : TRUE
         IN IF food.name \in ctx.recorded_food_ids
            THEN [st EXCEPT !.skipped = Append(@, item.food_name)]
            ELSE LET meal == [id |-> ctx.first_id + Len(st.added),
                              user_id |-> ctx.user_id,
                              food_id |-> food.name,
                              meal_type |-> ctx.meal_type,
                              date |-> ctx.date,
                              amount |-> item.amount]
                 IN IF ~item.numeric
                    THEN [st EXCEPT !.added = Append(@, meal), !.status = "error"]
                    ELSE [st EXCEPT !.added = Append(@, meal),
                                    !.recorded = Append(@,
                                        [food_name |-> food.name,
                                         amount |-> item.amount,
                                         nutrition |-> ItemNutrition(food, item.amount)])]

RECURSIVE ProcessFoods(_, _, _, _)
ProcessFoods(foods, i, st, ctx) ==
    IF i > Len(foods) \/ st.status # "run" THEN st
    ELSE ProcessFoods(foods, i + 1, FoodStep(st, foods[i], ctx), ctx)

SeqToSet(q) == {q[i] : i \in 1..Len(q)}

\* Variants: what the session held is in the table although it was rolled back,
\* or although the handler returned without committing
RollbackKeeps(before, after) == after
DiscardKeeps(before, after) == after

\* What a table holds once the request's session is over, given its rows before
\* the request and in the session.  db.session.commit() writes the session:
Commit(before, after) == after
\* db.session.rollback() in the except clause throws the session's changes away:
Rollback(before, after) == before
\* and so does a return without commit: the session is removed with the request
\* context, and what it had not committed is lost.
Discard(before, after) == before

\* The response of a handler: op is the handler, user_id the user it found,
\* total and spirit the total_nutrition and spirit of the body, recorded the
\* (food_name, amount) of its foods, skipped its skipped_foods; extra is what a
\* query adds to these (its date or date range, its totals by slot).
Response(op, status, user_id, total, spirit, recorded, skipped) ==
    [op |-> op, status |-> status, user_id |-> user_id, total |-> total,
     spirit |-> spirit, recorded |-> recorded, skipped |-> skipped, extra |-> <<>>]

WithExtra(r, extra) == [r EXCEPT !.extra = extra]

Reject(op, status) == Response(op, status, None, None, None, <<>>, <<>>)

\* record_meal for request req; commit_ok says whether db.session.commit() succeeds
\* and seen is table student_meals as the query of line 93 found it.  Gives the
\* tables after the request and the response.
RecordMealWith(req, commit_ok, seen) ==
    LET same(r) == [meals |-> meals, spirits |-> spirits, gain |-> 0, resp |-> r]
        found == {u \in users : u.username = req.username}
        failed(status, uid, skipped) ==
            Response("record_meal", status, Some(uid), None, None, <<>>, skipped)
    IN IF req.username = "" THEN same(Reject("record_meal", 400))
       ELSE IF found = {} THEN same(Reject("record_meal", 404))
       ELSE IF req.foods = <<>> THEN same(Reject("record_meal", 400))
       ELSE IF req.date # None /\ ParseDate(req.date[1]) = None
       THEN same(Reject("record_meal", 400))
       ELSE
       LET user == CHOOSE u \in found : TRUE
           meal_date == IF req.date # None THEN req.date[1] ELSE req.today
           meal_type == IF req.meal_type # None THEN req.meal_type[1]
                        ELSE get_meal_type_by_time(req.hour)
           existing_meals == {m \in seen : m.user_id = user.id /\ m.date = meal_date
                                           /\ m.meal_type = meal_type}
           ctx == [user_id |-> user.id, meal_type |-> meal_type, date |-> meal_date,
                   recorded_food_ids |-> {m.food_id : m \in existing_meals},
                   first_id |-> NewId(meals)]
           st == CHOOSE x \in {ProcessFoods(req.foods, 1,
                     [added |-> <<>>, recorded |-> <<>>, skipped |-> <<>>,
                      status |-> "run", missing |-> ""], ctx)} : TRUE
           session_meals == meals \cup SeqToSet(st.added)
       IN IF st.status = "notfound"
          THEN [meals |-> Discard(meals, session_meals),
                spirits |-> spirits, gain |-> 0,
                resp |-> failed(404, user.id, <<>>)]
          ELSE IF st.status = "error"
          THEN [meals |-> Rollback(meals, session_meals),
                spirits |-> spirits, gain |-> 0,
                resp |-> failed(500, user.id, <<>>)]
          ELSE IF st.recorded = <<>>
          THEN [meals |-> Discard(meals, session_meals),
                spirits |-> spirits, gain |-> 0,
                resp |-> failed(400, user.id, st.skipped)]
          ELSE
          LET total_nutrition == calculate_total_nutrition(st.recorded)
              upd == update_spirit_attributes(spirits, user.id, total_nutrition)
          IN IF commit_ok
             THEN [meals |-> Commit(meals, session_meals),
                   spirits |-> Commit(spirits, upd.spirits),
                   gain |-> IF upd.ret # None THEN upd.ret[1].exp_gain ELSE 0,
                   resp |-> Response("record_meal", 201, Some(user.id),
                                Some(total_nutrition), upd.ret,
                                [i \in 1..Len(st.recorded) |->
                                    [food_name |-> st.recorded[i].food_name,
                                     amount |-> st.recorded[i].amount]],
                                st.skipped)]
             ELSE [meals |-> Rollback(meals, session_meals),
                   spirits |-> Rollback(spirits, upd.spirits),
                   gain |-> 0,
                   resp |-> failed(500, user.id, <<>>)]

\* record_meal run from its first line to its last with no other request between
RecordMealOutcome(req, commit_ok) == RecordMealWith(req, commit_ok, meals)

AddGain(g, user_id, n) ==
    IF user_id \in DOMAIN g THEN [g EXCEPT ![user_id] = @ + n] ELSE g

\* UserSpirit.query.filter_by(user_id=user_id): the rows of that user
SpiritOf(rows, user_id) == {s \in rows : s.user_id = user_id}

----------------------------------------------------------------------------
(* Users and their spirits *)

\* the seed attributes of a new spirit: by gender, in register and in init_spirit_data
SeedSpirit(user_id, gender) ==
    IF gender = "male"
    THEN [user_id |-> user_id, spirit_name |-> "warrior", spirit_level |-> 1,
          spirit_exp |-> 0, height |-> 100, weight |-> 20, iq |-> 40, strength |-> 40]
    ELSE [user_id |-> user_id, spirit_name |-> "fairy", spirit_level |-> 1,
          spirit_exp |-> 0, height |-> 95, weight |-> 18, iq |-> 45, strength |-> 35]

\* gained extended to the spirits created for these user ids
WithNewSpirits(g, ids) == [id \in DOMAIN g \cup ids |-> IF id \in DOMAIN g THEN g[id] ELSE 0]

\* users_data of init_user_data.py
ScriptUsers ==
    { [id |-> 1, username |-> "xiaohong", gender |-> "female"],
      [id |-> 2, username |-> "xiaoming", gender |-> "male"],
      [id |-> 3, username |-> "xiaozhang", gender |-> "male"] }

\* The requests drawn for POST /register: fields_ok is whether every required field
\* is there and height, weight and age are in range.
RegisterRequests ==
    { [username |-> "zhangsan", gender |-> "male", fields_ok |-> TRUE],
      [username |-> "zhangsan", gender |-> "other", fields_ok |-> TRUE],
      [username |-> "zhangsan", gender |-> "male", fields_ok |-> FALSE] }

\* register: a new user and the user's spirit, committed together.  The commit
\* fails on the unique user_id of user_spirit when a spirit of that id was left
\* behind by a run of init_user_data; the session is then rolled back.
RegisterOutcome(req) ==
    LET same(status) == [users |-> users, spirits |-> spirits, gained |-> gained,
                         resp |-> Reject("register", status)]
    IN IF ~req.fields_ok THEN same(400)
       ELSE IF req.gender \notin {"male", "female"} THEN same(400)
       ELSE IF \E u \in users : u.username = req.username THEN same(400)
       ELSE LET new_user == [id |-> NewId(users), username |-> req.username,
                             gender |-> req.gender]
                new_spirit == SeedSpirit(new_user.id, req.gender)
            IN IF \A s \in spirits : s.user_id # new_user.id
               THEN [users |-> Commit(users, users \cup {new_user}),
                     spirits |-> Commit(spirits, spirits \cup {new_spirit}),
                     gained |-> WithNewSpirits(gained, {new_user.id}),
                     resp |-> Response("register", 201, Some(new_user.id), None, None,
                                       <<>>, <<>>)]
               ELSE [users |-> Rollback(users, users \cup {new_user}),
                     spirits |-> Rollback(spirits, spirits \cup {new_spirit}),
                     gained |-> gained,
                     resp |-> Reject("register", 500)]

Register(req) ==
    /\ \E out \in {RegisterOutcome(req)} :
          /\ users' = out.users
          /\ spirits' = out.spirits
          /\ gained' = out.gained
          /\ resp' = out.resp
    /\ UNCHANGED <<meals, preselected, threads>>

\* init_user_data.py: every row of users is deleted and the script's users inserted
InitUserData ==
    /\ users' = ScriptUsers
    /\ resp' = Reject("script", 0)
    /\ UNCHANGED <<spirits, meals, gained, preselected, threads>>

\* Variant: a seed spirit for every user, whether the user has one or not
InitSpiritDataAll ==
    /\ spirits' = spirits \cup {SeedSpirit(u.id, u.gender) : u \in users}
    /\ gained' = WithNewSpirits(gained, {u.id : u \in users})
    /\ resp' = Reject("script", 0)
    /\ UNCHANGED <<users, meals, preselected, threads>>

\* init_spirit_data.py: a seed spirit for every user that has none
InitSpiritData ==
    LET without == {u \in users : \A s \in spirits : s.user_id # u.id}
    IN /\ spirits' = spirits \cup {SeedSpirit(u.id, u.gender) : u \in without}
       /\ gained' = WithNewSpirits(gained, {u.id : u \in without})
       /\ resp' = Reject("script", 0)
       /\ UNCHANGED <<users, meals, preselected, threads>>

----------------------------------------------------------------------------
(* The requests drawn for POST /meals *)

Item(food_name, amount) == [food_name |-> food_name, amount |-> amount, numeric |-> TRUE]
BadItem(food_name) == [food_name |-> food_name, amount |-> 0, numeric |-> FALSE]

Items ==
    { Item("ribs", 1), Item("ribs", -1), Item("veg", 1), Item("veg", 50000),
      Item("ghost", 1), BadItem("ribs") }

FoodLists == [{1} -> Items] \cup [{1, 2} -> Items]

\* One drawn input of record_meal: the request body, the clock (today, hour) and
\* whether db.session.commit() succeeds.
MealRequest(username, date, meal_type, foods, commit_ok) ==
    [username |-> username, date |-> date, meal_type |-> meal_type, foods |-> foods,
     today |-> "2025-03-18", hour |-> 12, commit_ok |-> commit_ok]

MealRequests ==
    { MealRequest("zhangsan", Some("2025-03-18"), Some("1"), f, TRUE) : f \in FoodLists }
    \cup { MealRequest("xiaohong", Some("2025-03-18"), Some("1"), f, TRUE) :
               f \in [{1} -> Items] }
    \cup { MealRequest("", Some("2025-03-18"), Some("1"), <<Item("ribs", 1)>>, TRUE),
           MealRequest("nobody", Some("2025-03-18"), Some("1"), <<Item("ribs", 1)>>, TRUE),
           MealRequest("zhangsan", Some("2025-03-18"), Some("1"), <<>>, TRUE),
           MealRequest("zhangsan", Some("18/03/2025"), Some("1"), <<Item("ribs", 1)>>, TRUE),
           MealRequest("zhangsan", None, None, <<Item("ribs", 1)>>, TRUE),
           MealRequest("zhangsan", None, None, <<Item("", 1), Item("veg", 0)>>, TRUE),
           MealRequest("zhangsan", Some("2025-03-18"), Some("1"), <<Item("ribs", 1)>>, FALSE),
           MealRequest("xiaohong", Some("2025-03-18"), Some("1"), <<Item("veg", 1)>>, FALSE) }

record_meal(req) ==
    /\ Cardinality(meals) < MaxMeals
    /\ \E out \in {RecordMealOutcome(req, req.commit_ok)} :
          /\ meals' = out.meals
          /\ spirits' = out.spirits
          /\ gained' = IF out.resp.user_id = None THEN gained
                       ELSE AddGain(gained, out.resp.user_id[1], out.gain)
          /\ resp' = out.resp
    /\ UNCHANGED <<users, preselected, threads>>

\* The server threads that handle requests at the same time, and a thread
\* that is handling none
Threads == {"t1", "t2"}
Idle == [pc |-> "idle"]

Init ==
    /\ users = {}
    /\ spirits = {}
    /\ meals = {}
    /\ gained = << >>
    /\ resp = Reject("none", 0)
    /\ preselected = {}
    /\ threads = [t \in Threads |-> Idle]

Next ==
    \/ \E req \in RegisterRequests : Register(req)
    \/ InitUserData
    \/ InitSpiritData
    \/ \E req \in MealRequests : record_meal(req)

Spec == Init /\ [][Next]_vars

----------------------------------------------------------------------------
(* The progression of one spirit over many meals *)

\* One entry of recorded_foods (lines 134-152)
RecordedFood(food_name, amount) ==
    LET food == CHOOSE f \in Foods : f.name = food_name
    IN [food_name |-> food.name, amount |-> amount,
        nutrition |-> ItemNutrition(food, amount)]

\* the recorded_foods of the meals drawn for a long run of meal events
ProgMeals ==
    { <<RecordedFood("veg", 0)>>, <<RecordedFood("ribs", 1)>>,
      <<RecordedFood("veg", 50000)>> }

\* Lines 157-164 of record_meal for a request whose foods were all found and new:
\* the totals, the progression update and the commit.  The rows of student_meals
\* are left out, the update does not read them.
MealEvent(user_id, recorded_foods) ==
    /\ user_id \in DOMAIN gained
    /\ gained[user_id] < MaxGained
    /\ \E total \in {calculate_total_nutrition(recorded_foods)} :
       \E upd \in {update_spirit_attributes(spirits, user_id, total)} :
          /\ spirits' = Commit(spirits, upd.spirits)
          /\ gained' = AddGain(gained, user_id,
                               IF upd.ret # None THEN upd.ret[1].exp_gain ELSE 0)
          /\ resp' = Response("record_meal", 201, Some(user_id), Some(total), upd.ret,
                        [i \in 1..Len(recorded_foods) |->
                            [food_name |-> recorded_foods[i].food_name,
                             amount |-> recorded_foods[i].amount]],
                        <<>>)
    /\ UNCHANGED <<users, meals, preselected, threads>>

ProgNext ==
    \/ \E req \in RegisterRequests : Register(req)
    \/ \E u \in users, f \in ProgMeals : MealEvent(u.id, f)

ProgSpec == Init /\ [][ProgNext]_vars

----------------------------------------------------------------------------
(* The spirit's name and the queries *)

\* the longest name update_spirit_name takes
MaxNameLen == 50
\* without start_date the statistics start this many days before their end
DefaultRangeDays == 6

\* The names drawn for POST /name: the name of the body, what strip() makes of
\* it and the length of that
NameRequests ==
    { [name |-> " hero ", stripped |-> "hero", len |-> 4, commit_ok |-> TRUE],
      [name |-> " hero ", stripped |-> "hero", len |-> 4, commit_ok |-> FALSE],
      [name |-> "  ", stripped |-> "", len |-> 0, commit_ok |-> TRUE],
      [name |-> "a...a", stripped |-> "a...a", len |-> MaxNameLen + 1, commit_ok |-> TRUE] }

\* the spirit of a response body
SpiritBody(s) ==
    [spirit_name |-> s.spirit_name, level |-> s.spirit_level, exp |-> s.spirit_exp,
     height |-> s.height, weight |-> s.weight, strength |-> s.strength, iq |-> s.iq]

\* Variant: the renamed spirit starts again at experience 0
RenamedReset(s, new_name) == [s EXCEPT !.spirit_name = new_name, !.spirit_exp = 0]

\* spirit.spirit_name = new_name (updated_at is not a column of the model)
Renamed(s, new_name) == [s EXCEPT !.spirit_name = new_name]

\* get_spirit_info: the spirit of the token's user, or 404
get_spirit_info(current_user_id) ==
    /\ resp' = IF SpiritOf(spirits, current_user_id) = {}
               THEN Reject("get_spirit_info", 404)
               ELSE LET s == CHOOSE x \in SpiritOf(spirits, current_user_id) : TRUE
                    IN WithExtra(Response("get_spirit_info", 200, Some(current_user_id),
                                          None, Some(SpiritBody(s)), <<>>, <<>>),
                                 [next_level_exp |-> s.spirit_level * ExpPerLevel])
    /\ UNCHANGED <<users, spirits, meals, gained, preselected, threads>>

\* update_spirit_name: the new name is checked, the spirit found, renamed and committed
update_spirit_name(current_user_id, req) ==
    /\ \E out \in {
            IF req.stripped = "" THEN [spirits |-> spirits, resp |-> Reject("update_spirit_name", 400)]
            ELSE IF req.len > MaxNameLen
            THEN [spirits |-> spirits, resp |-> Reject("update_spirit_name", 400)]
            ELSE IF SpiritOf(spirits, current_user_id) = {}
            THEN [spirits |-> spirits, resp |-> Reject("update_spirit_name", 404)]
            ELSE LET s == CHOOSE x \in SpiritOf(spirits, current_user_id) : TRUE
                     t == Renamed(s, req.stripped)
                     session == (spirits \ {s}) \cup {t}
                 IN IF req.commit_ok
                    THEN [spirits |-> Commit(spirits, session),
                          resp |-> Response("update_spirit_name", 200, Some(current_user_id),
                                            None, Some(SpiritBody(t)), <<>>, <<>>)]
                    ELSE [spirits |-> Rollback(spirits, session),
                          resp |-> Response("update_spirit_name", 500, Some(current_user_id),
                                            None, None, <<>>, <<>>)] } :
          /\ spirits' = out.spirits
          /\ resp' = out.resp
    /\ UNCHANGED <<users, meals, gained, preselected, threads>>

\* the three slots of a day
Slots == {"1", "2", "3"}

\* the rows of a query in the order the table gives them: by id
RECURSIVE ById(_)
ById(rows) ==
    IF rows = {} THEN <<>>
    ELSE LET m == CHOOSE r \in rows : \A q \in rows : r.id <= q.id
         IN <<m>> \o ById(rows \ {m})

\* meal.food
FoodOf(food_id) == CHOOSE f \in Foods : f.name = food_id

\* get_meals: the records of the token's user on one day, by slot, with the
\* totals of each slot and of the day
GetMealsOutcome(current_user_id, date_arg, today) ==
    IF date_arg # None /\ ParseDate(date_arg[1]) = None THEN Reject("get_meals", 400)
    ELSE
    LET query_date == IF date_arg # None THEN date_arg[1] ELSE today
        rows == ById({m \in meals : m.user_id = current_user_id /\ m.date = query_date})
        entries == [i \in 1..Len(rows) |->
                       [meal_type |-> rows[i].meal_type,
                        food_name |-> FoodOf(rows[i].food_id).name,
                        amount |-> rows[i].amount,
                        nutrition |-> ItemNutrition(FoodOf(rows[i].food_id), rows[i].amount)]]
        slot(t) == SelectSeq(entries, LAMBDA e : e.meal_type = t)
        all_nutrition == slot("1") \o slot("2") \o slot("3")
    IN IF \E i \in 1..Len(rows) : rows[i].meal_type \notin Slots
       THEN Response("get_meals", 500, Some(current_user_id), None, None, <<>>, <<>>)
       ELSE WithExtra(
               Response("get_meals", 200, Some(current_user_id),
                        IF all_nutrition = <<>> THEN None
                        ELSE Some(calculate_total_nutrition(all_nutrition)),
                        None,
                        [i \in 1..Len(all_nutrition) |->
                            [food_name |-> all_nutrition[i].food_name,
                             amount |-> all_nutrition[i].amount]],
                        <<>>),
               [date |-> query_date,
                meals |-> [t \in Slots |->
                              IF slot(t) = <<>> THEN None
                              ELSE Some(calculate_total_nutrition(slot(t)))]])

get_meals(current_user_id, date_arg) ==
    /\ resp' = GetMealsOutcome(current_user_id, date_arg, "2025-03-18")
    /\ UNCHANGED <<users, spirits, meals, gained, preselected, threads>>

\* meal.food.<nutrient> or 0
FoodValue(food_id, k) ==
    LET v == FoodOf(food_id).nutrition[k] IN IF v = None THEN 0 ELSE v[1]

\* what one row adds to the statistics of its day (lines 596-608)
RowValue(row, k) == FoodValue(row.food_id, k)

\* the dates of the rows, each once, in the order they are first met
RECURSIVE DayOrder(_, _)
DayOrder(rows, n) ==
    IF n = 0 THEN <<>>
    ELSE LET days == DayOrder(rows, n - 1)
         IN IF \E i \in 1..Len(days) : days[i] = rows[n].date THEN days
            ELSE Append(days, rows[n].date)

\* daily_stats[date][k] after the first n rows
RECURSIVE DayStat(_, _, _, _)
DayStat(rows, date, k, n) ==
    IF n = 0 THEN 0
    ELSE LET t == DayStat(rows, date, k, n - 1)
         IN IF rows[n].date = date THEN FloatAdd(t, RowValue(rows[n], k)) ELSE t

\* sum(day[k] for day in daily_stats.values()) over the first n days
RECURSIVE TotalStat(_, _, _, _)
TotalStat(rows, days, k, n) ==
    IF n = 0 THEN 0
    ELSE FloatAdd(TotalStat(rows, days, k, n - 1), DayStat(rows, days[n], k, Len(rows)))

\* get_statistics: the totals of the records of the token's user in a range of days
StatisticsOutcome(current_user_id, start_arg, end_arg, today) ==
    IF \/ end_arg # None /\ ParseDate(end_arg[1]) = None
       \/ start_arg # None /\ ParseDate(start_arg[1]) = None
    THEN Reject("get_statistics", 400)
    ELSE
    LET end == IF end_arg # None THEN DayNumber(end_arg[1]) ELSE DayNumber(today)
        start == IF start_arg # None THEN DayNumber(start_arg[1]) ELSE end - DefaultRangeDays
        rows == ById({m \in meals : /\ m.user_id = current_user_id
                                    /\ DayNumber(m.date) >= start
                                    /\ DayNumber(m.date) <= end})
        days == DayOrder(rows, Len(rows))
        range == [start |-> start, end |-> end, days_count |-> end - start + 1,
                  days_with_records |-> Len(days)]
    IN IF start > end THEN Reject("get_statistics", 400)
       ELSE IF rows = <<>>
       THEN WithExtra(Response("get_statistics", 404, Some(current_user_id), None, None,
                               <<>>, <<>>), range)
       ELSE IF \A u \in users : u.id # current_user_id
       THEN Response("get_statistics", 500, Some(current_user_id), None, None, <<>>, <<>>)
       ELSE WithExtra(
               Response("get_statistics", 200, Some(current_user_id),
                        Some([k \in Nutrients |-> TotalStat(rows, days, k, Len(days))]),
                        None, <<>>, <<>>),
               range)

get_statistics(current_user_id, start_arg, end_arg) ==
    /\ resp' = StatisticsOutcome(current_user_id, start_arg, end_arg, "2025-03-18")
    /\ UNCHANGED <<users, spirits, meals, gained, preselected, threads>>

----------------------------------------------------------------------------
(* Preselecting a meal *)

\* One pass of the loop over data['foods'] of preselect_meal (lines 1035-1061)
PreselectStep(st, item, ctx) ==
    IF item.food_name = "" THEN st
    ELSE IF FindFood(item.food_name) = {}
    THEN [st EXCEPT !.status = "notfound"]
    ELSE LET food == CHOOSE f \in FindFood(item.food_name) : TRUE
             row == [id |-> ctx.first_id + Len(st.added), user_id |-> ctx.user_id,
                     food_id |-> food.name, meal_type |-> ctx.meal_type,
                     date |-> ctx.date, amount |-> item.amount]
         IN [st EXCEPT !.added = Append(@, row),
                       !.recorded = Append(@, [food_name |-> food.name,
                                               amount |-> item.amount]),
                       !.numeric = @ /\ item.numeric]

RECURSIVE PreselectLoop(_, _, _, _)
PreselectLoop(foods, i, st, ctx) ==
    IF i > Len(foods) \/ st.status # "run" THEN st
    ELSE PreselectLoop(foods, i + 1, PreselectStep(st, foods[i], ctx), ctx)

\* preselect_meal: the preselected rows of the slot are deleted and the foods of
\* the request inserted in their place, in one commit.  A non-numeric amount
\* fails the insert into the Float column when the session is written.
PreselectOutcome(current_user_id, req) ==
    LET same(status) == [preselected |-> preselected,
                         resp |-> Response("preselect_meal", status, Some(current_user_id),
                                           None, None, <<>>, <<>>)]
    IN IF \A u \in users : u.id # current_user_id
       THEN [preselected |-> preselected, resp |-> Reject("preselect_meal", 404)]
       ELSE IF ParseDate(req.date) = None THEN same(400)
       ELSE IF DayNumber(req.date) < DayNumber(req.today) THEN same(400)
       ELSE IF req.meal_type = None \/ req.meal_type[1] \notin Slots THEN same(400)
       ELSE IF req.foods = <<>> THEN same(400)
       ELSE
       LET kept == {r \in preselected : ~(/\ r.user_id = current_user_id
                                          /\ r.date = req.date
                                          /\ r.meal_type = req.meal_type[1])}
           ctx == [user_id |-> current_user_id, meal_type |-> req.meal_type[1],
                   date |-> req.date, first_id |-> NewId(kept)]
           st == CHOOSE x \in {PreselectLoop(req.foods, 1,
                     [added |-> <<>>, recorded |-> <<>>, status |-> "run",
                      numeric |-> TRUE], ctx)} : TRUE
           session == kept \cup SeqToSet(st.added)
       IN IF st.status = "notfound"
          THEN [preselected |-> Discard(preselected, session),
                resp |-> same(404).resp]
          ELSE IF ~st.numeric \/ ~req.commit_ok
          THEN [preselected |-> Rollback(preselected, session),
                resp |-> same(500).resp]
          ELSE [preselected |-> Commit(preselected, session),
                resp |-> WithExtra(
                            Response("preselect_meal", 201, Some(current_user_id), None,
                                     None, st.recorded, <<>>),
                            [date |-> req.date, meal_type |-> req.meal_type[1]])]

preselect_meal(current_user_id, req) ==
    /\ \A r \in preselected : r.id < MaxPreselectId
    /\ \E out \in {PreselectOutcome(current_user_id, req)} :
          /\ preselected' = out.preselected
          /\ resp' = out.resp
    /\ UNCHANGED <<users, spirits, meals, gained, threads>>

----------------------------------------------------------------------------
(* The handlers together *)

AppRegisterRequests ==
    { [username |-> "zhangsan", gender |-> "male", fields_ok |-> TRUE],
      [username |-> "lisi", gender |-> "female", fields_ok |-> TRUE] }

AppMealRequests ==
    { MealRequest("zhangsan", Some("2025-03-18"), Some("1"), <<Item("ribs", 1)>>, TRUE),
      MealRequest("zhangsan", Some("2025-03-19"), Some("2"), <<Item("veg", 2)>>, TRUE),
      MealRequest("lisi", None, None, <<Item("veg", 2)>>, TRUE),
      MealRequest("zhangsan", Some("2025-03-19"), Some("9"), <<Item("veg", 1)>>, TRUE) }

\* the date of GET /meals
DateArgs == {None, Some("2025-03-19"), Some("18/03/2025")}

\* start_date and end_date of GET /statistics
RangeArgs ==
    { [start |-> None, end |-> None],
      [start |-> Some("2025-03-18"), end |-> Some("2025-03-19")],
      [start |-> Some("2025-03-19"), end |-> Some("2025-03-19")],
      [start |-> Some("2025-03-19"), end |-> Some("2025-03-18")],
      [start |-> Some("18/03/2025"), end |-> None] }

PreselectRequest(date, meal_type, foods, commit_ok) ==
    [date |-> date, meal_type |-> meal_type, foods |-> foods, today |-> "2025-03-18",
     commit_ok |-> commit_ok]

PreselectRequests ==
    { PreselectRequest("2025-03-19", Some("1"), <<Item("ribs", 1)>>, TRUE),
      PreselectRequest("2025-03-19", Some("1"), <<Item("veg", 2), Item("ribs", 1)>>, TRUE),
      PreselectRequest("2025-03-19", Some("1"), <<Item("veg", 1), Item("ghost", 1)>>, TRUE),
      PreselectRequest("2025-03-19", Some("1"), <<Item("veg", 1), BadItem("ribs")>>, TRUE),
      PreselectRequest("2025-03-19", Some("1"), <<Item("veg", 1)>>, FALSE),
      PreselectRequest("2025-03-19", Some("1"), <<>>, TRUE),
      PreselectRequest("2025-03-19", Some("4"), <<Item("veg", 1)>>, TRUE),
      PreselectRequest("2025-03-19", None, <<Item("veg", 1)>>, TRUE),
      PreselectRequest("2025-03-17", Some("1"), <<Item("veg", 1)>>, TRUE),
      PreselectRequest("", Some("1"), <<Item("veg", 1)>>, TRUE) }

\* the identity of the token of a request: the id of the user who logged in
Token(username) == {u.id : u \in {x \in users : x.username = username}}

\* The requests with a token are drawn with the token of one user each: zhangsan
\* renames the spirit and queries, lisi preselects, both read their spirit.
AppNext ==
    \/ \E req \in AppRegisterRequests : Register(req)
    \/ \E req \in AppMealRequests : record_meal(req)
    \/ \E u \in users : get_spirit_info(u.id)
    \/ \E id \in Token("zhangsan"), req \in NameRequests : update_spirit_name(id, req)
    \/ \E id \in Token("zhangsan"), d \in DateArgs : get_meals(id, d)
    \/ \E id \in Token("zhangsan"), a \in RangeArgs : get_statistics(id, a.start, a.end)
    \/ \E id \in Token("lisi"), req \in PreselectRequests : preselect_meal(id, req)

AppSpec == Init /\ [][AppNext]_vars

----------------------------------------------------------------------------
(* The preselections of two users *)

\* The requests drawn for POST /preselect when both users preselect: those
\* above, and requests for another slot, for another date and with an entry
\* that names no food
PlanRequests ==
    PreselectRequests \cup
    { PreselectRequest("2025-03-19", Some("2"), <<Item("veg", 1)>>, TRUE),
      PreselectRequest("2025-03-18", Some("1"), <<Item("ribs", 2)>>, TRUE),
      PreselectRequest("2025-03-19", Some("1"), <<Item("", 1), Item("veg", 3)>>, TRUE) }

PlanNext ==
    \/ \E req \in AppRegisterRequests : Register(req)
    \/ \E u \in users, req \in PlanRequests : preselect_meal(u.id, req)

PlanSpec == Init /\ [][PlanNext]_vars

----------------------------------------------------------------------------
(* Two meal requests at the same time *)

(***************************************************************************)
(* The server handles requests in threads, each with its own session and   *)
(* connection, and record_meal takes no lock.  A request reads the slot's  *)
(* existing records at line 93 (StartMeal).  Its first write is the flush  *)
(* of the new rows, which precedes the query for the spirit at line 199    *)
(* and takes the write lock of the SQLite database; the lock is held to    *)
(* the commit of line 164, so from the flush to the commit no other        *)
(* request writes, and the spirit is read after the flush (FinishMeal).    *)
(***************************************************************************)

ConcMealRequests ==
    { MealRequest("zhangsan", Some("2025-03-18"), Some("1"), <<Item("ribs", 1)>>, TRUE),
      MealRequest("zhangsan", Some("2025-03-18"), Some("1"), <<Item("veg", 1)>>, TRUE),
      MealRequest("zhangsan", Some("2025-03-18"), Some("1"),
                  <<Item("ribs", 1), Item("veg", 1)>>, TRUE),
      MealRequest("zhangsan", Some("2025-03-18"), Some("1"), <<Item("ribs", 1)>>, FALSE),
      MealRequest("zhangsan", Some("2025-03-18"), Some("1"), <<>>, TRUE) }

\* Lines 40-100 of record_meal in thread t: the request is rejected, or the
\* existing records of the slot are read
StartMeal(t, req) ==
    /\ threads[t].pc = "idle"
    /\ Cardinality(meals) < MaxMeals
    /\ \E out \in {RecordMealOutcome(req, TRUE)} :
          IF out.resp.user_id = None
          THEN resp' = out.resp /\ UNCHANGED threads
          ELSE /\ threads' = [threads EXCEPT ![t] = [pc |-> "loop", req |-> req,
                                                      seen |-> meals]]
               /\ UNCHANGED resp
    /\ UNCHANGED <<users, spirits, meals, gained, preselected>>

\* Lines 102-185 of record_meal in thread t
FinishMeal(t) ==
    /\ threads[t].pc = "loop"
    /\ \E out \in {RecordMealWith(threads[t].req, threads[t].req.commit_ok,
                                   threads[t].seen)} :
          /\ meals' = out.meals
          /\ spirits' = out.spirits
          /\ gained' = IF out.resp.user_id = None THEN gained
                       ELSE AddGain(gained, out.resp.user_id[1], out.gain)
          /\ resp' = out.resp
    /\ threads' = [threads EXCEPT ![t] = Idle]
    /\ UNCHANGED <<users, preselected>>

ConcNext ==
    \/ \E req \in RegisterRequests : Register(req)
    \/ \E t \in Threads, req \in ConcMealRequests : StartMeal(t, req)
    \/ \E t \in Threads : FinishMeal(t)

ConcSpec == Init /\ [][ConcNext]_vars

----------------------------------------------------------------------------
(* The pure functions, applied to drawn arguments *)

\* the largest percentage graded
MaxPercent == 200
\* a percentage is counted in parts of this size to the percent
PercentUnit == 2

\* A percentage is a float; the model draws fractions num / den.
Lt(p, n) == p.num < n * p.den
Le(p, n) == p.num <= n * p.den

Grade(grade, level) == [grade |-> grade, level |-> level]

\* Variants: a boundary taken on the other side
get_nutrition_grade_open(percentage) ==
    IF Lt(percentage, 60) THEN Grade("severe deficiency", 1)
    ELSE IF Lt(percentage, 80) THEN Grade("deficiency", 2)
    ELSE IF Lt(percentage, 95) THEN Grade("slightly low", 3)
    ELSE IF Lt(percentage, 105) THEN Grade("normal", 4)
    ELSE IF Le(percentage, 120) THEN Grade("sufficient", 3)
    ELSE IF Le(percentage, 140) THEN Grade("excess", 2)
    ELSE Grade("severe excess", 1)

get_nutrition_grade_closed(percentage) ==
    IF Le(percentage, 60) THEN Grade("severe deficiency", 1)
    ELSE IF Lt(percentage, 80) THEN Grade("deficiency", 2)
    ELSE IF Lt(percentage, 95) THEN Grade("slightly low", 3)
    ELSE IF Le(percentage, 105) THEN Grade("normal", 4)
    ELSE IF Le(percentage, 120) THEN Grade("sufficient", 3)
    ELSE IF Le(percentage, 140) THEN Grade("excess", 2)
    ELSE Grade("severe excess", 1)

\* get_nutrition_grade(percentage): the grade and its level
get_nutrition_grade(percentage) ==
    IF Lt(percentage, 60) THEN Grade("severe deficiency", 1)
    ELSE IF Lt(percentage, 80) THEN Grade("deficiency", 2)
    ELSE IF Lt(percentage, 95) THEN Grade("slightly low", 3)
    ELSE IF Le(percentage, 105) THEN Grade("normal", 4)
    ELSE IF Le(percentage, 120) THEN Grade("sufficient", 3)
    ELSE IF Le(percentage, 140) THEN Grade("excess", 2)
    ELSE Grade("severe excess", 1)

\* A float that is not a whole number is the fraction num / den
Whole(n) == [num |-> n, den |-> 1]
Tenths(n) == [num |-> n, den |-> 10]

\* the two entries of the standards of one nutrient and gender: "<=18" and ">18"
ByAge(young, adult) == [young |-> young, adult |-> adult]

\* the dictionary standards of get_nutrition_standard
standards ==
    [k \in Nutrients |->
        CASE k = "calories" ->
                [male |-> ByAge(Whole(2700), Whole(2400)), female |-> ByAge(Whole(2400), Whole(2100))]
          [] k = "protein" ->
                [male |-> ByAge(Whole(75), Whole(65)), female |-> ByAge(Whole(65), Whole(55))]
          [] k = "fat" ->
                [male |-> ByAge(Whole(75), Whole(70)), female |-> ByAge(Whole(65), Whole(60))]
          [] k = "calcium" ->
                [male |-> ByAge(Whole(1000), Whole(800)), female |-> ByAge(Whole(1000), Whole(800))]
          [] k = "iron" ->
                [male |-> ByAge(Whole(12), Whole(12)), female |-> ByAge(Whole(15), Whole(15))]
          [] k = "zinc" ->
                [male |-> ByAge(Whole(15), Whole(15)), female |-> ByAge(Whole(12), Whole(12))]
          [] k = "vitamin_a" ->
                [male |-> ByAge(Whole(800), Whole(800)), female |-> ByAge(Whole(700), Whole(700))]
          [] k \in {"vitamin_b1", "vitamin_b2"} ->
                [male |-> ByAge(Tenths(14), Tenths(14)), female |-> ByAge(Tenths(12), Tenths(12))]
          [] OTHER ->
                [male |-> ByAge(Whole(100), Whole(100)), female |-> ByAge(Whole(100), Whole(100))]]

\* Variant: 18 is in the adult bracket
get_nutrition_standard_adult18(nutrient_type, gender, age) ==
    LET age_key == IF age < 18 THEN "young" ELSE "adult"
    IN standards[nutrient_type][gender][age_key]

\* get_nutrition_standard(nutrient_type, gender, age)
get_nutrition_standard(nutrient_type, gender, age) ==
    LET age_key == IF age <= 18 THEN "young" ELSE "adult"
    IN standards[nutrient_type][gender][age_key]

\* (daily_avg / standard) * 100.  The quotient and the product are rounded in
\* the program; the model keeps the exact fraction.  The rounding moves no
\* percentage to the other side of 100 (the quotient of two different floats
\* is at least one float away from 1) and leaves that of equal floats at 100.
PercentageOf(daily_avg, standard) ==
    [num |-> daily_avg.num * 100 * standard.den, den |-> daily_avg.den * standard.num]

\* The suggestion of analyze_nutrition (lines 805-842): it is chosen by the
\* level alone; "increase", "decrease" and "keep" stand for the three texts
Suggestion(level, percentage) ==
    IF level < 3 THEN "increase"
    ELSE IF level > 3 THEN "decrease"
    ELSE "keep"

\* analyze_nutrition(daily_avg, gender, age, nutrient_type)
analyze_nutrition(daily_avg, gender, age, nutrient_type) ==
    LET standard == get_nutrition_standard(nutrient_type, gender, age)
        percentage == PercentageOf(daily_avg, standard)
        grade_info == get_nutrition_grade(percentage)
    IN [nutrient |-> nutrient_type, current |-> daily_avg, standard |-> standard,
        percentage |-> percentage, grade |-> grade_info.grade,
        level |-> grade_info.level,
        suggestion |-> Suggestion(grade_info.level, percentage)]

Percentages == {[num |-> n, den |-> PercentUnit] : n \in 0..(MaxPercent * PercentUnit)}

\* the hour of a datetime
Hours == 0..23

\* The items drawn for the aggregate: small amounts, and one amount so large
\* that the float sums of its products are rounded
SmallItems == {Item("ribs", 1), Item("veg", 1), Item("veg", 2), Item("ribs", -1)}
LargeItem == Item("veg", MantissaLimit)

ItemLists ==
    {<<>>} \cup [{1} -> SmallItems] \cup [{1, 2} -> SmallItems] \cup [{1, 2, 3} -> SmallItems]
    \cup {<<LargeItem>>}
    \cup {q \in [{1, 2, 3} -> {LargeItem, Item("veg", 1), Item("ribs", 1)}] :
             Cardinality({i \in 1..3 : q[i] = LargeItem}) = 1}

\* the orders of a list of n items
Orders(n) == {f \in [1..n -> 1..n] : \A i \in 1..n : \E j \in 1..n : f[j] = i}

\* recorded_foods of a list of items whose foods are all in the catalog (lines 134-152)
RecordedFoods(items) ==
    [i \in 1..Len(items) |-> RecordedFood(items[i].food_name, items[i].amount)]

\* The ages drawn for the analysis, around the bracket boundary of 18
Ages == {15, 18, 19, 30}

\* The daily averages drawn: every value of the standards, and values below
\* and above them
DailyAverages ==
    {Whole(n) : n \in {0, 1, 10, 12, 14, 15, 50, 55, 60, 65, 70, 72, 75, 90, 100, 110, 130,
                       150, 700, 800, 1000, 2100, 2400, 2700, 3000, 4000}}
    \cup {Tenths(14), Tenths(12), Tenths(13), Tenths(7)}

AnalyzeArgs ==
    [daily_avg : DailyAverages, gender : {"male", "female"}, age : Ages,
     nutrient_type : Nutrients]

\* A function about to be applied to drawn arguments, and its application: the
\* name, the arguments and what it returned
Pending(fn, args) == WithExtra(Reject(fn, 0), [args |-> args])
Call(fn, args, result) == WithExtra(Reject(fn, 0), [args |-> args, result |-> result])

IsPending(fn) == resp.op = fn /\ DOMAIN resp.extra = {"args"}

\* the arguments are drawn: an hour, a list of items and an order of it, a
\* percentage, the arguments of an analysis
FuncInit ==
    /\ users = {} /\ spirits = {} /\ meals = {} /\ preselected = {}
    /\ gained = << >>
    /\ threads = [t \in Threads |-> Idle]
    /\ \/ resp \in {Pending("get_meal_type_by_time", hour) : hour \in Hours}
       \/ \E items \in ItemLists :
             resp \in {Pending("calculate_total_nutrition", [foods |-> items, order |-> o]) :
                          o \in Orders(Len(items))}
       \/ resp \in {Pending("get_nutrition_grade", p) : p \in Percentages}
       \/ resp \in {Pending("analyze_nutrition", a) : a \in AnalyzeArgs}

Classify ==
    /\ IsPending("get_meal_type_by_time")
    /\ resp' = Call(resp.op, resp.extra.args, get_meal_type_by_time(resp.extra.args))
    /\ UNCHANGED <<users, spirits, meals, gained, preselected, threads>>

\* the aggregate of a list of items and of the same items in another order
Aggregate ==
    /\ IsPending("calculate_total_nutrition")
    /\ LET items == resp.extra.args.foods
           order == resp.extra.args.order
       IN resp' = Call(resp.op, resp.extra.args,
                    [total |-> calculate_total_nutrition(RecordedFoods(items)),
                     reordered |-> calculate_total_nutrition(
                                      RecordedFoods([i \in 1..Len(items) |-> items[order[i]]]))])
    /\ UNCHANGED <<users, spirits, meals, gained, preselected, threads>>

GradeOf ==
    /\ IsPending("get_nutrition_grade")
    /\ resp' = Call(resp.op, resp.extra.args, get_nutrition_grade(resp.extra.args))
    /\ UNCHANGED <<users, spirits, meals, gained, preselected, threads>>

Analyze ==
    /\ IsPending("analyze_nutrition")
    /\ LET a == resp.extra.args
       IN resp' = Call(resp.op, a,
                       analyze_nutrition(a.daily_avg, a.gender, a.age, a.nutrient_type))
    /\ UNCHANGED <<users, spirits, meals, gained, preselected, threads>>

FuncNext == Classify \/ Aggregate \/ GradeOf \/ Analyze

FuncSpec == FuncInit /\ [][FuncNext]_vars

----------------------------------------------------------------------------
(* The progression update, statement by statement *)

\* the spirits the update is run on: every level up to MaxLoopLevel with every
\* experience up to MaxLoopExp, also those at or over the threshold of the level
MaxLoopLevel == 3
MaxLoopExp == 350

\* update_spirit_attributes in thread "t1" at its first statement, for a spirit
\* of this level and experience and a meal of these recorded foods
UpdateFrame(level, exp, recorded_foods) ==
    [pc |-> "gain", level |-> level, exp |-> exp,
     total |-> calculate_total_nutrition(recorded_foods),
     exp_gain |-> 0, iterations |-> 0,
     start |-> [level |-> level, exp |-> exp]]

LoopInit ==
    /\ users = {} /\ spirits = {} /\ meals = {} /\ preselected = {}
    /\ gained = << >>
    /\ resp = Reject("none", 0)
    /\ \E level \in 1..MaxLoopLevel, exp \in 0..MaxLoopExp, f \in ProgMeals :
          threads = [t \in Threads |->
                        IF t = "t1" THEN UpdateFrame(level, exp, f) ELSE Idle]

\* lines 203-218: exp_gain is computed and added to spirit_exp
GainExp(t) ==
    /\ threads[t].pc = "gain"
    /\ threads' = [threads EXCEPT ![t].pc = "loop",
                                  ![t].exp_gain = ExpGain(threads[t].total),
                                  ![t].exp = @ + ExpGain(threads[t].total)]
    /\ UNCHANGED <<users, spirits, meals, gained, resp, preselected>>

\* lines 221-223: the test of the while holds and its body is run once
LoopIteration(t) ==
    /\ threads[t].pc = "loop"
    /\ threads[t].exp >= threads[t].level * ExpPerLevel
    /\ \E up \in {LevelUp(threads[t].level, threads[t].exp)} :
          threads' = [threads EXCEPT ![t].level = up.level,
                                     ![t].exp = up.exp,
                                     ![t].iterations = @ + 1]
    /\ UNCHANGED <<users, spirits, meals, gained, resp, preselected>>

\* lines 221, 226-259: the test of the while fails; the attributes are set
\* and the update returns
LoopExit(t) ==
    /\ threads[t].pc = "loop"
    /\ ~(threads[t].exp >= threads[t].level * ExpPerLevel)
    /\ threads' = [threads EXCEPT ![t].pc = "done"]
    /\ UNCHANGED <<users, spirits, meals, gained, resp, preselected>>

LoopNext == \E t \in Threads : GainExp(t) \/ LoopIteration(t) \/ LoopExit(t)

LoopSpec == LoopInit /\ [][LoopNext]_vars

\* The update is straight-line code in a thread that the server runs: a
\* statement that can be run is run.
FairLoopSpec == LoopInit /\ [][LoopNext]_vars /\ WF_vars(LoopNext)

----------------------------------------------------------------------------
(* Properties *)

\* the number of calories, protein, fat, calcium with a strictly positive total
CountPositive(total) ==
    Cardinality({k \in {"calories", "protein", "fat", "calcium"} : total[k] > 0})

\* the last request was a meal event that updated a spirit
MealUpdated(r) == r.op = "record_meal" /\ r.status = 201 /\ r.spirit # None

\* C1: in every state reached from freshly registered spirits (level 1,
\* experience 0) by meal events, every spirit has level >= 1 and
\* 0 <= experience < level * 100.
C1_ExpBelowThreshold ==
    \A s \in spirits :
        /\ s.spirit_level >= 1
        /\ 0 <= s.spirit_exp
        /\ s.spirit_exp < s.spirit_level * 100

\* a spirit that has levelled up twice
C1_Witness == \E s \in spirits : s.spirit_level = 3

\* C2: no step removes a spirit or lowers its level; a step that changes the
\* level raises it by exactly 1 and leaves experience at the old experience
\* plus the gain of the event minus the threshold of the level left (level * 100).
C2_LevelStepsByOne ==
    [][\A s \in spirits :
          \E t \in spirits' :
             /\ t.user_id = s.user_id
             /\ t.spirit_level >= s.spirit_level
             /\ t.spirit_level # s.spirit_level =>
                   /\ t.spirit_level = s.spirit_level + 1
                   /\ MealUpdated(resp')
                   /\ t.spirit_exp = s.spirit_exp + resp'.spirit[1].exp_gain
                                     - s.spirit_level * 100]_vars

\* a spirit that has just levelled up: the event's gain took it over the threshold
C2_Witness ==
    /\ MealUpdated(resp)
    /\ resp.spirit[1].level >= 2
    /\ resp.spirit[1].exp < resp.spirit[1].exp_gain

\* C3: the level and experience reached by the meal events applied one after
\* another are those of the threshold loop run once on the sum of their gains,
\* from level 1 and experience 0.
C3_SumThenLoop ==
    \A s \in spirits :
        LevelLoop(1, 0 + gained[s.user_id])
            = [level |-> s.spirit_level, exp |-> s.spirit_exp]

\* a sum of gains that crosses two thresholds (100, then 200)
C3_Witness ==
    \E s \in spirits : gained[s.user_id] >= 300 /\ s.spirit_level = 3

\* C4 as stated: the gain of a meal event is 5 plus 2 for each of calories,
\* protein, fat and calcium with a strictly positive total.
C4_GainTwoPerNutrient ==
    MealUpdated(resp) =>
        resp.spirit[1].exp_gain = 5 + 2 * CountPositive(resp.total[1])

\* C4 amended: the gain of a meal event is 5 plus 1 for each of calories,
\* protein, fat and calcium with a strictly positive total, so between 5 and 9
\* (8 with calories, protein and calcium positive and fat not); the exp_gain
\* returned is the amount the event added to the spirit's experience.
C4_GainOnePerNutrient ==
    [][MealUpdated(resp') /\ users' = users =>
          LET ret == resp'.spirit[1]
              total == resp'.total[1]
          IN /\ ret.exp_gain = 5 + CountPositive(total)
             /\ ret.exp_gain >= 5 /\ ret.exp_gain <= 9
             /\ (total["calories"] > 0 /\ total["protein"] > 0 /\ total["calcium"] > 0
                 /\ ~(total["fat"] > 0)) => ret.exp_gain = 8
             /\ \A s \in SpiritOf(spirits, resp'.user_id[1]) :
                   [level |-> ret.level, exp |-> ret.exp]
                       = LevelLoop(s.spirit_level, s.spirit_exp + ret.exp_gain)
             /\ \A t \in SpiritOf(spirits', resp'.user_id[1]) :
                   t.spirit_level = ret.level /\ t.spirit_exp = ret.exp]_vars

\* a meal with calories, protein and calcium and no fat was rewarded
C4_Witness ==
    /\ MealUpdated(resp)
    /\ resp.total[1]["calories"] > 0 /\ resp.total[1]["protein"] > 0
    /\ resp.total[1]["calcium"] > 0 /\ resp.total[1]["fat"] = 0
    /\ resp.spirit[1].exp_gain = 8

\* C5: after any meal event, however large its totals, weight, strength and
\* intelligence are at most 100 and height at most 200.
C5_AttributesCapped ==
    \A s \in spirits :
        s.weight <= 100 /\ s.strength <= 100 /\ s.iq <= 100 /\ s.height <= 200

\* a meal of at least 1,000,000 calories left the weight at its cap
C5_Witness ==
    /\ MealUpdated(resp)
    /\ resp.total[1]["calories"] >= 1000000
    /\ \E s \in SpiritOf(spirits, resp.user_id[1]) : s.weight = 100

\* C6 as stated: no meal event lowers height, weight, intelligence or strength
\* of a spirit, whatever foods and amounts the handler lets through.
C6_AttributesNeverDecrease ==
    [][\A s \in spirits : \A t \in SpiritOf(spirits', s.user_id) :
          /\ t.height >= s.height
          /\ t.weight >= s.weight
          /\ t.iq >= s.iq
          /\ t.strength >= s.strength]_vars

\* C7 as stated: a request with an item of amount <= 0 fails before anything
\* is stored, so no stored meal record and no accepted request has such an amount.
C7_NonPositivePortionRejected ==
    /\ \A m \in meals : m.amount > 0
    /\ (resp.op = "record_meal" /\ resp.status = 201) =>
           \A i \in 1..Len(resp.recorded) : resp.recorded[i].amount > 0

\* a meal request got as far as the food lookup and failed there
FoodNotFound(r) == r.op = "record_meal" /\ r.status = 404 /\ r.user_id # None

\* C8: a meal request naming a food that is not in the catalog leaves no meal
\* record behind (also none of the foods listed before the missing one), returns
\* no totals and leaves every progression state as it was.
C8_FoodNotFoundAbandons ==
    [][FoodNotFound(resp') =>
          /\ meals' = meals
          /\ spirits' = spirits
          /\ gained' = gained
          /\ resp'.total = None
          /\ resp'.spirit = None
          /\ resp'.recorded = <<>>]_vars

\* a request was abandoned for a missing food, with records and spirits in store
C8_Witness == FoodNotFound(resp) /\ meals # {} /\ spirits # {}

\* C9: for a user without a spirit the progression update of a meal event returns
\* None and changes nothing: no spirit is created or changed, and the only stored
\* change of the request is its own new meal records.
C9_NoSpiritNoUpdate ==
    [][(/\ resp'.op = "record_meal" /\ resp'.status = 201
        /\ SpiritOf(spirits, resp'.user_id[1]) = {}) =>
          /\ resp'.spirit = None
          /\ spirits' = spirits
          /\ gained' = gained
          /\ users' = users
          /\ meals \subseteq meals'
          /\ Cardinality(meals' \ meals) = Len(resp'.recorded)]_vars

\* a meal of a user without a spirit was recorded
C9_Witness ==
    /\ resp.op = "record_meal" /\ resp.status = 201 /\ resp.spirit = None
    /\ SpiritOf(spirits, resp.user_id[1]) = {}

\* C10: a meal request either stores all of its new meal records together with
\* the whole progression update (level, experience, weight, strength,
\* intelligence) of the user's spirit, or it fails and stores nothing: meal
\* records and spirits are then as before.  (A user without a spirit has no
\* progression update; the records alone are stored.)
C10_AllOrNothing ==
    [][resp'.op = "record_meal" =>
          IF resp'.status = 201
          THEN LET uid == resp'.user_id[1]
                   total == resp'.total[1]
                   new == meals' \ meals
               IN /\ meals \subseteq meals'
                  /\ Cardinality(new) = Len(resp'.recorded)
                  /\ \A i \in 1..Len(resp'.recorded) :
                        \E m \in new : /\ m.user_id = uid
                                       /\ m.food_id = resp'.recorded[i].food_name
                                       /\ m.amount = resp'.recorded[i].amount
                  /\ \A s \in spirits \ SpiritOf(spirits, uid) : s \in spirits'
                  /\ Cardinality(spirits') = Cardinality(spirits)
                  /\ \A s \in SpiritOf(spirits, uid) :
                        /\ resp'.spirit # None
                        /\ \E t \in SpiritOf(spirits', uid) :
                              /\ [level |-> t.spirit_level, exp |-> t.spirit_exp]
                                    = LevelLoop(s.spirit_level,
                                                s.spirit_exp + 5 + CountPositive(total))
                              /\ t.weight = Min(100, s.weight + TruncDiv(total["calories"], 100))
                              /\ t.strength = Min(100, s.strength + TruncDiv(total["protein"], 10))
                              /\ t.iq = Min(100, s.iq + TruncDiv(total["vitamin_b1"]
                                          + total["vitamin_b2"] + total["vitamin_c"], 30))
                              /\ t.height = s.height
          ELSE meals' = meals /\ spirits' = spirits]_vars

\* a request failed after rows had been added to its session (an exception or a
\* failed commit), with records and spirits in store
C10_Witness ==
    /\ resp.op = "record_meal" /\ resp.status = 500
    /\ meals # {} /\ spirits # {}

----------------------------------------------------------------------------
(* Claims C11 to C20 *)

\* all the experience a spirit has been given: what its levels cost and what is left
TotalExp(s) == s.spirit_exp + ExpPerLevel * ((s.spirit_level * (s.spirit_level - 1)) \div 2)

\* C11: a meal request that succeeds applies exactly one progression update to
\* the user's spirit, whatever the number of foods it lists: the spirit's
\* experience grows by the one gain the response reports, which holds the base
\* gain of 5 once (5 to 9 in all).  A request that is rejected (missing user,
\* empty food list, bad date, food not found, all foods already recorded, or a
\* failed commit) applies none: spirits are as before.
C11_OneUpdatePerRequest ==
    [][resp'.op = "record_meal" =>
          IF resp'.status = 201 /\ SpiritOf(spirits, resp'.user_id[1]) # {}
          THEN LET uid == resp'.user_id[1]
                   gain == resp'.spirit[1].exp_gain
               IN /\ Len(resp'.recorded) >= 1
                  /\ gain >= BaseExpGain /\ gain < 2 * BaseExpGain
                  /\ gained' = [gained EXCEPT ![uid] = @ + gain]
                  /\ \A s \in spirits \ SpiritOf(spirits, uid) : s \in spirits'
                  /\ \A s \in SpiritOf(spirits, uid) :
                        \E t \in SpiritOf(spirits', uid) :
                            /\ TotalExp(t) = TotalExp(s) + gain
                            /\ SpiritOf(spirits', uid) = {t}
          ELSE spirits' = spirits /\ gained' = gained]_vars

\* a request of two foods has succeeded and updated the spirit
C11_Witness ==
    MealUpdated(resp) /\ Len(resp.recorded) = 2

\* C13: a registration that succeeds creates, in the same step, the new user
\* and exactly one spirit of that user, at level 1 and experience 0 with the seed
\* attributes of the user's gender (male 100/20/40/40, female 95/18/45/35 for
\* height/weight/iq/strength); a registration that fails changes neither users
\* nor spirits; and at all times, whatever registrations and runs of
\* init_spirit_data there were, no user id has two spirits and every registered
\* user has one.
C13_OneSpiritPerUser ==
    /\ [](/\ \A u \in users : Cardinality(SpiritOf(spirits, u.id)) <= 1
          /\ \A s \in spirits : Cardinality(SpiritOf(spirits, s.user_id)) = 1
          /\ \A u \in users : u.username \in {r.username : r \in RegisterRequests}
                                  => Cardinality(SpiritOf(spirits, u.id)) = 1)
    /\ [][resp'.op = "register" =>
             IF resp'.status = 201
             THEN LET uid == resp'.user_id[1]
                  IN /\ \A u \in users : u.id # uid
                     /\ SpiritOf(spirits, uid) = {}
                     /\ \E u \in users' :
                           /\ u.id = uid
                           /\ users' = users \cup {u}
                           /\ \E t \in spirits' :
                                 /\ spirits' = spirits \cup {t}
                                 /\ t.user_id = uid
                                 /\ t.spirit_level = 1 /\ t.spirit_exp = 0
                                 /\ <<t.height, t.weight, t.iq, t.strength>>
                                      = IF u.gender = "male" THEN <<100, 20, 40, 40>>
                                        ELSE <<95, 18, 45, 35>>
             ELSE users' = users /\ spirits' = spirits]_vars

\* a registration has succeeded beside the script's users, all with a spirit,
\* one of them grown by a meal
C13_Witness ==
    /\ resp.op = "register" /\ resp.status = 201
    /\ Cardinality(users) = 4 /\ Cardinality(spirits) = 4
    /\ \E s \in spirits : TotalExp(s) > 0

\* C12: the six progression fields of a spirit (level, experience, height,
\* weight, intelligence, strength) change only in a step that is a successful
\* meal request of the spirit's own user: renaming the spirit, reading the
\* spirit, the meals or the statistics, preselecting a meal, registering, and
\* the meal requests of other users leave the six fields of every spirit as
\* they were.
C12_OnlyOwnMealChangesSpirit ==
    [][\A s \in spirits :
          \/ \E t \in spirits' :
                /\ t.user_id = s.user_id
                /\ <<t.spirit_level, t.spirit_exp, t.height, t.weight, t.iq, t.strength>>
                     = <<s.spirit_level, s.spirit_exp, s.height, s.weight, s.iq, s.strength>>
          \/ /\ resp'.op = "record_meal" /\ resp'.status = 201
             /\ resp'.user_id = Some(s.user_id)]_vars

\* a renamed spirit that meals have grown, beside the spirit of another user
\* who has recorded a meal too, after a preselection
C12_Witness ==
    /\ \E s \in spirits : s.spirit_name = "hero" /\ TotalExp(s) > 0
    /\ \E m1 \in meals, m2 \in meals : m1.user_id # m2.user_id
    /\ \A t \in spirits : TotalExp(t) > 0
    /\ preselected # {}
    /\ resp.op = "get_statistics" /\ resp.status = 200

\* the total of nutrient k the meals query reports for the day, 0 without records
DailyTotal(user_id, date, k) ==
    LET r == GetMealsOutcome(user_id, Some(date), date)
    IN IF r.status = 200 /\ r.total # None THEN r.total[1][k] ELSE 0

\* C18: each total of the statistics query is the sum, over the days of its
\* range, of the daily totals the meals query reports for those days (food
\* value * recorded amount, absent values as 0).
C18_StatisticsMergeMeals ==
    (resp.op = "get_statistics" /\ resp.status = 200) =>
        \A k \in Nutrients :
            resp.total[1][k] =
                (IF resp.extra.start <= 17 /\ 17 <= resp.extra.end
                 THEN DailyTotal(resp.user_id[1], "2025-03-17", k) ELSE 0)
                + (IF resp.extra.start <= 18 /\ 18 <= resp.extra.end
                   THEN DailyTotal(resp.user_id[1], "2025-03-18", k) ELSE 0)
                + (IF resp.extra.start <= 19 /\ 19 <= resp.extra.end
                   THEN DailyTotal(resp.user_id[1], "2025-03-19", k) ELSE 0)

\* C14: once two meal requests for the same user, date and slot that ran at
\* the same time have both completed, no food is recorded twice for the slot,
\* and the spirit holds the gain of every request that succeeded.
C14_ConcurrentAsSerial ==
    (\A t \in Threads : threads[t].pc = "idle") =>
        /\ \A m1 \in meals, m2 \in meals :
              (/\ m1.user_id = m2.user_id /\ m1.date = m2.date
               /\ m1.meal_type = m2.meal_type /\ m1.food_id = m2.food_id) => m1 = m2
        /\ \A s \in spirits :
              LevelLoop(1, gained[s.user_id]) = [level |-> s.spirit_level, exp |-> s.spirit_exp]

\* a function has been applied: resp holds its arguments and its result
Applied(fn) == resp.op = fn /\ "result" \in DOMAIN resp.extra

\* C15: for every hour from 0 to 23 the classifier returns a slot, never
\* anything else: breakfast ("1") for the hours 5 to 9, lunch ("2") for 10 to
\* 14, dinner ("3") for 15 to 22, and breakfast for hour 23 and the hours 0 to 4.
C15_ClassifyByHour ==
    Applied("get_meal_type_by_time") =>
        LET hour == resp.extra.args
            slot == resp.extra.result
        IN /\ slot \in {"1", "2", "3"}
           /\ (5 <= hour /\ hour < 10) => slot = "1"
           /\ (10 <= hour /\ hour < 15) => slot = "2"
           /\ (15 <= hour /\ hour < 23) => slot = "3"
           /\ (hour = 23 \/ (0 <= hour /\ hour <= 4)) => slot = "1"

\* the last hour of the day has been classified
C15_Witness ==
    Applied("get_meal_type_by_time") /\ resp.extra.args = 23 /\ resp.extra.result = "1"

\* the value of nutrient k of the catalog food of an item times the item's
\* amount, 0 where the food has no value
Contribution(item, k) ==
    LET food == CHOOSE f \in Foods : f.name = item.food_name
    IN IF food.nutrition[k] = None THEN 0 ELSE FloatMul(food.nutrition[k][1], item.amount)

\* the float sum, in the order of the list, of the contributions of its first n items
RECURSIVE ListSum(_, _, _)
ListSum(items, k, n) ==
    IF n = 0 THEN 0 ELSE FloatAdd(ListSum(items, k, n - 1), Contribution(items[n], k))

\* C16: the aggregate of a list of items has exactly the 13 nutrient keys, and
\* for each of them the total is the sum over the items, in the order of the
\* list, of food value * amount, a null value counting as 0; the totals of
\* the empty list are all 0.
C16_AggregateIsSum ==
    Applied("calculate_total_nutrition") =>
        LET items == resp.extra.args.foods
            total == resp.extra.result.total
        IN /\ DOMAIN total = Nutrients
           /\ Cardinality(DOMAIN total) = 13
           /\ \A k \in Nutrients : total[k] = ListSum(items, k, Len(items))
           /\ items = <<>> => \A k \in Nutrients : total[k] = 0

\* the aggregate of three items, with a null value among them and a total that
\* is not the value of one food
C16_Witness ==
    /\ Applied("calculate_total_nutrition")
    /\ Len(resp.extra.args.foods) = 3
    /\ resp.extra.result.total["calories"] = 264 + 2 * 24 + 264
    /\ resp.extra.result.total["zinc"] = 6
    /\ resp.extra.result.total["magnesium"] = 0

\* C17 as stated: the totals of a list of items in another order are the
\* totals of the list, for every nutrient.
C17_ShuffleInvariant ==
    Applied("calculate_total_nutrition") =>
        resp.extra.result.reordered = resp.extra.result.total

\* the sum of the magnitudes of the contributions of the first n items
RECURSIVE AbsSum(_, _, _)
AbsSum(items, k, n) ==
    IF n = 0 THEN 0
    ELSE LET c == Contribution(items[n], k)
         IN AbsSum(items, k, n - 1) + (IF c >= 0 THEN c ELSE -c)

\* C17 amended: the totals of a list of items in another order are the totals
\* of the list for every nutrient whose float sums are exact in any order (the
\* magnitudes of the contributions add up to less than the first integer that
\* is not a float), and for every list of at most two items; the totals of
\* longer lists can differ by the rounding of the float sums.
C17_ShuffleInvariantExact ==
    Applied("calculate_total_nutrition") =>
        LET items == resp.extra.args.foods
        IN \A k \in Nutrients :
              (Len(items) <= 2 \/ AbsSum(items, k, Len(items)) < MantissaLimit)
                  => resp.extra.result.reordered[k] = resp.extra.result.total[k]

\* three items, the first and the last different, aggregated in reversed
\* order, with float sums that are exact
C17_Witness ==
    /\ Applied("calculate_total_nutrition")
    /\ Len(resp.extra.args.foods) = 3
    /\ resp.extra.args.order = <<3, 2, 1>>
    /\ resp.extra.args.foods[1] # resp.extra.args.foods[3]
    /\ resp.extra.result.total["calories"] # 0
    /\ \A k \in Nutrients :
          AbsSum(resp.extra.args.foods, k, 3) < MantissaLimit

\* the percentage p as a number of parts of size 1 / PercentUnit
Is(p, n) == p.num = n * p.den

\* C19: every percentage is in exactly one of the seven tiers and is given
\* the grade and level of that tier: below 60 severe deficiency (1); from 60
\* to below 80 deficiency (2); from 80 to below 95 slightly low (3); from 95
\* to 105, both included, normal (4); above 105 to 120 sufficient (3); above
\* 120 to 140 excess (2); above 140 severe excess (1).  Exactly 60 is
\* deficiency and exactly 105 is normal.
C19_ExactlyOneTier ==
    Applied("get_nutrition_grade") =>
        LET p == resp.extra.args
            tiers == { [in |-> Lt(p, 60), g |-> Grade("severe deficiency", 1)],
                       [in |-> ~Lt(p, 60) /\ Lt(p, 80), g |-> Grade("deficiency", 2)],
                       [in |-> ~Lt(p, 80) /\ Lt(p, 95), g |-> Grade("slightly low", 3)],
                       [in |-> ~Lt(p, 95) /\ Le(p, 105), g |-> Grade("normal", 4)],
                       [in |-> ~Le(p, 105) /\ Le(p, 120), g |-> Grade("sufficient", 3)],
                       [in |-> ~Le(p, 120) /\ Le(p, 140), g |-> Grade("excess", 2)],
                       [in |-> ~Le(p, 140), g |-> Grade("severe excess", 1)] }
        IN /\ Cardinality({t \in tiers : t.in}) = 1
           /\ \A t \in tiers : t.in => resp.extra.result = t.g
           /\ Is(p, 60) => resp.extra.result = Grade("deficiency", 2)
           /\ Is(p, 105) => resp.extra.result = Grade("normal", 4)

\* exactly 105 has been graded
C19_Witness ==
    /\ Applied("get_nutrition_grade") /\ Is(resp.extra.args, 105)
    /\ resp.extra.result.grade = "normal"

\* C20: the level is symmetric around 100: a percentage 100 - d, with d >= 0
\* and 100 - d >= 0, is given the level of the percentage 100 + d; 59 and
\* 141 are given level 1 and 100 is given level 4.
C20_SymmetricLevels ==
    Applied("get_nutrition_grade") =>
        LET p == resp.extra.args
            mirror == [num |-> 2 * 100 * p.den - p.num, den |-> p.den]
        IN /\ (p.num >= 0 /\ Le(p, 100)) =>
                 get_nutrition_grade(mirror).level = resp.extra.result.level
           /\ (Is(p, 59) \/ Is(p, 141)) => resp.extra.result.level = 1
           /\ Is(p, 100) => resp.extra.result.level = 4

\* a percentage on a boundary below 100 has been graded: 80, whose mirror is 120
C20_Witness ==
    /\ Applied("get_nutrition_grade") /\ Is(resp.extra.args, 80)
    /\ resp.extra.result.level = 3

----------------------------------------------------------------------------
(* Claims C21 to C30 *)

\* C21 as stated: the suggestion follows the side of 100 the percentage lies
\* on: a result of level < 4 with a percentage below 100 has the "increase"
\* suggestion, a "decrease" suggestion is given only at level 1 or 2 with a
\* percentage above 100, and a result of the normal tier (level 4) never has
\* the "decrease" suggestion.
C21_SuggestionFollowsSide ==
    Applied("analyze_nutrition") =>
        LET r == resp.extra.result
        IN /\ (r.level < 4 /\ Lt(r.percentage, 100)) => r.suggestion = "increase"
           /\ r.suggestion = "decrease" => (r.level \in {1, 2} /\ ~Le(r.percentage, 100))
           /\ r.level = 4 => r.suggestion # "decrease"

\* the fractions a and b are the same number
SameNumber(a, b) == a.num * b.den = b.num * a.den

\* C22: the standard of an analysis is the entry of the table for the
\* nutrient, the gender and the age bracket, ages <= 18 in the young bracket
\* and ages > 18 in the adult one, for each of the 13 nutrients and both
\* genders (male, 15, protein: 75); a daily average equal to the standard has
\* percentage 100 and is graded normal, level 4.
C22_StandardByBracket ==
    Applied("analyze_nutrition") =>
        LET a == resp.extra.args
            r == resp.extra.result
            entry == standards[a.nutrient_type][a.gender]
        IN /\ a.age <= 18 => r.standard = entry.young
           /\ a.age > 18 => r.standard = entry.adult
           /\ r.standard.num > 0
           /\ (a.gender = "male" /\ a.age = 15 /\ a.nutrient_type = "protein")
                 => r.standard = Whole(75)
           /\ SameNumber(a.daily_avg, r.standard) =>
                 /\ Is(r.percentage, 100)
                 /\ r.grade = "normal"
                 /\ r.level = 4

\* the protein of a boy of 15 whose daily average is the standard of 75
C22_Witness ==
    /\ Applied("analyze_nutrition")
    /\ resp.extra.args = [daily_avg |-> Whole(75), gender |-> "male", age |-> 15,
                          nutrient_type |-> "protein"]
    /\ resp.extra.result.standard = Whole(75)
    /\ resp.extra.result.level = 4
    /\ Is(resp.extra.result.percentage, 100)

\* C23 as stated: one meal event raises weight by min(calories / 2000 * 0.1,
\* 0.1) and strength by min(protein / 30 * 0.1, 0.1), so neither grows by
\* more than 0.1 in one event.
C23_GrowthByTenths ==
    [][MealUpdated(resp') =>
          \A s \in SpiritOf(spirits, resp'.user_id[1]) :
          \A t \in SpiritOf(spirits', resp'.user_id[1]) :
             /\ 20000 * (t.weight - s.weight) = Min(resp'.total[1]["calories"], 2000)
             /\ 300 * (t.strength - s.strength) = Min(resp'.total[1]["protein"], 30)
             /\ 10 * (t.weight - s.weight) <= 1
             /\ 10 * (t.strength - s.strength) <= 1]_vars

\* C23 amended: one meal event raises weight by int(calories / 100) and
\* strength by int(protein / 10), the fraction dropped, and each stops at its
\* cap of 100; the growth of one event is not limited otherwise.  From weight
\* 20 and strength 40 an event of 264 calories and 18 g of protein gives weight
\* 22 and strength 41.
C23_GrowthByWholePoints ==
    [][MealUpdated(resp') =>
          \A s \in SpiritOf(spirits, resp'.user_id[1]) :
          \A t \in SpiritOf(spirits', resp'.user_id[1]) :
             LET calories == resp'.total[1]["calories"]
                 protein == resp'.total[1]["protein"]
             IN /\ t.weight = Min(100, s.weight + TruncDiv(calories, 100))
                /\ t.strength = Min(100, s.strength + TruncDiv(protein, 10))
                /\ (s.weight = 20 /\ s.strength = 40 /\ calories = 264 /\ protein = 18)
                      => (t.weight = 22 /\ t.strength = 41)]_vars

\* the first meal of a male spirit was 264 calories and 18 g of protein
C23_Witness ==
    /\ MealUpdated(resp)
    /\ resp.total[1]["calories"] = 264 /\ resp.total[1]["protein"] = 18
    /\ resp.spirit[1].weight = 22 /\ resp.spirit[1].strength = 41

\* C24 as stated: a meal event whose calcium or vitamin_d total is > 0 raises
\* height by 0.05 while height is below the cap of 200, and a meal event with
\* both totals at 0 leaves height as it was.
C24_HeightGrowsWithCalcium ==
    [][MealUpdated(resp') =>
          \A s \in SpiritOf(spirits, resp'.user_id[1]) :
          \A t \in SpiritOf(spirits', resp'.user_id[1]) :
             IF resp'.total[1]["calcium"] > 0 \/ resp'.total[1]["vitamin_d"] > 0
             THEN s.height < 200 => 20 * (t.height - s.height) = 1
             ELSE t.height = s.height]_vars

\* C24 amended: a meal event leaves height as it was, whatever its calcium and
\* vitamin_d totals; no step changes the height of a spirit, which stays the
\* seed height of its gender (100 or 95).
C24_HeightNeverChanges ==
    /\ [](\A s \in spirits : s.height \in {100, 95})
    /\ [][\A s \in spirits : \A t \in SpiritOf(spirits', s.user_id) :
             t.height = s.height]_vars

\* a meal with calcium and no vitamin D has updated a spirit that earlier meals
\* had grown, and the spirit has its seed height
C24_Witness ==
    /\ MealUpdated(resp)
    /\ resp.total[1]["calcium"] > 0
    /\ resp.total[1]["vitamin_d"] = 0
    /\ \E s \in SpiritOf(spirits, resp.user_id[1]) : s.height = 100 /\ TotalExp(s) > 9

\* C25: a meal request whose foods are all recorded already for its user,
\* date and slot is rejected, stores no meal record and gives no experience;
\* of a request with recorded and new foods, the foods recorded before it are
\* skipped and the others are stored, one record each, and the totals that
\* drive the progression update are those of the stored foods alone.
C25_RecordedFoodsSkipped ==
    [][(/\ resp'.op = "record_meal" /\ resp'.user_id # None
        /\ \/ resp'.status = 201
           \/ resp'.status = 400 /\ resp'.skipped # <<>>) =>
          LET uid == resp'.user_id[1]
              new == meals' \ meals
              slots == {[date |-> m.date, meal_type |-> m.meal_type] : m \in meals \cup meals'}
              had(sl, food) == \E m \in meals : /\ m.user_id = uid /\ m.date = sl.date
                                                /\ m.meal_type = sl.meal_type
                                                /\ m.food_id = food
          IN \E sl \in slots :
                /\ \A m \in new : /\ m.user_id = uid /\ m.date = sl.date
                                  /\ m.meal_type = sl.meal_type
                /\ \A i \in 1..Len(resp'.skipped) : had(sl, resp'.skipped[i])
                /\ IF resp'.status = 400
                   THEN meals' = meals /\ spirits' = spirits /\ gained' = gained
                   ELSE /\ meals \subseteq meals'
                        /\ \A i \in 1..Len(resp'.recorded) :
                              ~had(sl, resp'.recorded[i].food_name)
                        /\ {m.food_id : m \in new}
                              = {resp'.recorded[i].food_name : i \in 1..Len(resp'.recorded)}
                        /\ Cardinality(new) = Len(resp'.recorded)
                        /\ \A k \in Nutrients :
                              resp'.total[1][k]
                                 = ListSum(resp'.recorded, k, Len(resp'.recorded))
                        /\ resp'.spirit # None =>
                              /\ resp'.spirit[1].exp_gain = 5 + CountPositive(resp'.total[1])
                              /\ gained' = [gained EXCEPT ![uid] = @ + resp'.spirit[1].exp_gain]]_vars

\* a request of a recorded food and a new one: the first was skipped, the
\* second stored and rewarded
C25_Witness ==
    /\ MealUpdated(resp)
    /\ Len(resp.skipped) = 1 /\ Len(resp.recorded) = 1
    /\ resp.skipped[1] # resp.recorded[1].food_name
    /\ Cardinality(meals) = 2

\* C26 as stated: after any sequence of meal requests handled one after
\* another, each food is in at most one stored meal record of a user, date and
\* slot, also when one request lists the same food more than once.
C26_OneRecordPerFood ==
    \A m1 \in meals, m2 \in meals :
        (/\ m1.user_id = m2.user_id /\ m1.date = m2.date
         /\ m1.meal_type = m2.meal_type /\ m1.food_id = m2.food_id) => m1.id = m2.id

\* C28 as stated: every meal record stored by record_meal has a slot in
\* {"1", "2", "3"}, whether the request gave the slot or the classifier did,
\* so the meals query, which groups the records by these three slots, never
\* meets a record of another slot (and never fails on one).
C28_StoredSlotsAreMealSlots ==
    /\ \A m \in meals : m.meal_type \in {"1", "2", "3"}
    /\ resp.op = "get_meals" => resp.status # 500

\* the entries of a request that name a food, as (food_name, amount)
NamedFoods(req) ==
    LET named == SelectSeq(req.foods, LAMBDA it : it.food_name # "")
    IN [i \in 1..Len(named) |-> [food_name |-> named[i].food_name,
                                 amount |-> named[i].amount]]

\* C29: a preselect request replaces the preselection of its user, date and
\* slot as a whole: when it succeeds the stored rows of the slot are the
\* foods of the request, in their order, and when it fails (a food that is not
\* found after the old rows were deleted in the session, an insert or a commit
\* that fails, a request that is refused) every stored row is as before; in
\* both cases the rows of other slots, dates and users are as before.
C29_PreselectReplaces ==
    [][resp'.op = "preselect_meal" =>
          IF resp'.status = 201
          THEN LET in_slot(r) == /\ r.user_id = resp'.user_id[1]
                                 /\ r.date = resp'.extra.date
                                 /\ r.meal_type = resp'.extra.meal_type
                   rows == ById({r \in preselected' : in_slot(r)})
                   stored == [i \in 1..Len(rows) |-> [food_name |-> rows[i].food_id,
                                                      amount |-> rows[i].amount]]
               IN /\ \E req \in PlanRequests :
                        /\ req.date = resp'.extra.date
                        /\ req.meal_type = Some(resp'.extra.meal_type)
                        /\ stored = NamedFoods(req)
                  /\ stored = resp'.recorded
                  /\ {r \in preselected' : ~in_slot(r)} = {r \in preselected : ~in_slot(r)}
          ELSE preselected' = preselected]_vars

\* a request has failed on a food that is not found, after a food that is, for
\* a slot with a preselection, beside a preselection of another user
C29_Witness ==
    /\ resp.op = "preselect_meal" /\ resp.status = 404 /\ resp.user_id # None
    /\ \E r1 \in preselected, r2 \in preselected :
          /\ r1.user_id = resp.user_id[1] /\ r1.date = "2025-03-19" /\ r1.meal_type = "1"
          /\ r2.user_id # resp.user_id[1]

\* the frame of the progression update in progress
Frame == threads["t1"]

\* C27: from a spirit with experience < level * 100, one meal event raises
\* the level by at most 1: its gain (9 at most) is below every threshold (100
\* at least), so the body of the level loop is run at most once.
C27_AtMostOneLevelPerEvent ==
    (Frame.pc # "idle" /\ Frame.start.exp < Frame.start.level * 100) =>
        /\ Frame.iterations <= 1
        /\ Frame.level <= Frame.start.level + 1
        /\ Frame.level = Frame.start.level + Frame.iterations
        /\ Frame.pc # "gain" =>
              /\ Frame.exp_gain <= 9
              /\ Frame.exp_gain < Frame.start.level * 100
        /\ Frame.pc = "done" =>
              LET sum == Frame.start.exp + Frame.exp_gain
              IN IF sum >= Frame.start.level * 100
                 THEN /\ Frame.level = Frame.start.level + 1
                      /\ Frame.exp = sum - Frame.start.level * 100
                 ELSE Frame.level = Frame.start.level /\ Frame.exp = sum

\* a spirit of level 3, below its threshold of 300, has levelled up in an event
C27_Witness ==
    /\ Frame.pc = "done"
    /\ Frame.start.level = 3 /\ Frame.start.exp < 300
    /\ Frame.iterations = 1 /\ Frame.level = 4

\* C30: the level loop of a meal event ends for every spirit with level >= 1
\* and experience >= 0: every run of the update reaches its return; each
\* pass of the loop takes a threshold > 0 off the experience, which stays
\* >= 0, and the level and experience at the return are those of the loop.
C30_LevelLoopTerminates ==
    /\ <>(Frame.pc = "done")
    /\ [][Frame'.iterations # Frame.iterations =>
             /\ Frame.level * 100 > 0
             /\ Frame'.exp = Frame.exp - Frame.level * 100
             /\ Frame'.exp < Frame.exp
             /\ Frame'.exp >= 0
             /\ Frame'.level = Frame.level + 1]_vars
    /\ [](Frame.pc = "done" =>
             /\ Frame.exp < Frame.level * 100
             /\ [level |-> Frame.level, exp |-> Frame.exp]
                   = LevelLoop(Frame.start.level, Frame.start.exp + Frame.exp_gain))

\* the update of a spirit over its threshold has returned after two passes of
\* the loop
C30_Witness ==
    /\ Frame.pc = "done"
    /\ Frame.start.exp >= Frame.start.level * 100
    /\ Frame.iterations = 2

====
